---- MODULE Spec2Model ----
(***************************************************************************)
(* Invoice-management service: the relational store (workspaces,          *)
(* suppliers, invoices, pending documents, processed-email markers), the  *)
(* blob storage and the request handlers that change them.                *)
(*                                                                         *)
(* Every handler runs in its own database session.  A handler that reads, *)
(* then calls an external service or computes, then commits is split at   *)
(* those points (begin / commit), so that two requests served by          *)
(* different workers interleave the way their transactions do under the   *)
(* store's default READ COMMITTED isolation: a commit writes the rows the *)
(* session changed, identified by primary key, without re-reading them.   *)
(*                                                                         *)
(* Amounts are integers in hundredths of the currency unit; a markup      *)
(* percentage is an integer number of percent.                            *)
(***************************************************************************)
EXTENDS Integers, Sequences, FiniteSets, TLC

VARIABLES
    workspaces,         \* rows of table workspaces
    suppliers,          \* rows of table suppliers
    invoices,           \* rows of table invoices
    pending_documents,  \* rows of table pending_documents
    processed_emails,   \* rows of table processed_emails
    blobs,              \* keys present in blob storage
    blob_size,          \* per key present: the size of the file stored, in bytes
    seq,                \* the store's id sequences and the storage key generator
    now,                \* the clock read by datetime.now
    req,                \* per worker: the session of the request it is serving
    resp                \* the response of the last completed request

vars == <<workspaces, suppliers, invoices, pending_documents, processed_emails,
          blobs, blob_size, seq, now, req, resp>>

db == <<workspaces, suppliers, invoices, pending_documents, processed_emails>>

-----------------------------------------------------------------------------
(* Bounds of the model *)

MaxSuppliers == 2       \* create_supplier calls
MaxInvoices == 2        \* invoices ever inserted
PipelineDocuments == 1  \* uploads in Spec
RaceDocuments == 1      \* uploads in SpecRace
SupplierDocuments == 2  \* uploads in SpecSuppliers

Users == {"u1", "u2"}
Markups == {0, 15}
Totals == {10000, 20000}
Workers == {"w1", "w2"}
SupplierIds == 1..MaxSuppliers
InvoiceIds == 1..MaxInvoices

None == "None"
NoTime == 0

-----------------------------------------------------------------------------
(* Settings *)

MAX_UPLOAD_SIZE == 10485760
ALLOWED_EXTENSIONS_any == {".pdf", ".png", ".jpg", ".jpeg", ".webp", ".doc", ".docx", ".exe"}

ALLOWED_EXTENSIONS == {".pdf", ".png", ".jpg", ".jpeg", ".webp", ".doc", ".docx"}

-----------------------------------------------------------------------------
(* Responses: the handler, the caller, the status code, the error of the
   taxonomy it stands for, a detail, a number (an id or a count), the rows
   returned, and the statistics or totals of the handlers that return them. *)

\* The statistics a sync returns.
NoStats ==
    [emails_scanned |-> 0, invoices_detected |-> 0, documents_created |-> 0,
     duplicates_skipped |-> 0]

\* The totals a consolidated-invoice preview returns.
NoTotals == [total_original |-> 0, total_markup |-> 0, total_billed |-> 0]

Response(op, user, code, error, detail, n) ==
    [op |-> op, user |-> user, code |-> code, error |-> error, detail |-> detail,
     n |-> n, data |-> {}, stats |-> NoStats, totals |-> NoTotals]

NoResponse == Response("none", None, 0, "none", "none", 0)

-----------------------------------------------------------------------------
(* Queries shared by the handlers *)

\* Workspace.user_id == current_user.id
OwnedWorkspaces(u) == {w.id : w \in {x \in workspaces : x.user_id = u}}

\* db.query(Workspace).filter(Workspace.id == w, Workspace.user_id == u).first()
WorkspaceOwnedBy(w, u) == w \in OwnedWorkspaces(u)

\* db.query(PendingDocument).join(Workspace).filter(id == d, user_id == u)
DocumentsOwnedBy(d, u) ==
    {doc \in pending_documents : doc.id = d /\ doc.workspace_id \in OwnedWorkspaces(u)}

\* db.query(Supplier).join(Workspace).filter(id == s, user_id == u)
SuppliersOwnedBy(s, u) ==
    {sup \in suppliers : sup.id = s /\ sup.workspace_id \in OwnedWorkspaces(u)}

\* db.query(Invoice).join(Workspace).filter(id == i, user_id == u)
InvoicesOwnedBy(i, u) ==
    {inv \in invoices : inv.id = i /\ inv.workspace_id \in OwnedWorkspaces(u)}

\* process_document, step 4:
\* Supplier.workspace_id == document.workspace_id, Supplier.email == supplier_email
SuppliersByEmail(w, email) ==
    {sup \in suppliers : sup.workspace_id = w /\ sup.email = email}

SuppliersById(s, w) == {sup \in suppliers : sup.id = s}

\* create_invoice_manual:
\* Supplier.id == invoice_data.supplier_id, Supplier.workspace_id == document.workspace_id
SuppliersInWorkspace(s, w) ==
    {sup \in suppliers : sup.id = s /\ sup.workspace_id = w}

-----------------------------------------------------------------------------
(* Rows and sessions *)

Supplier(id, w, email, markup) ==
    [id |-> id, workspace_id |-> w, email |-> email, markup_percentage |-> markup]

NoSupplier == Supplier(0, 0, None, 0)

NoDocument ==
    [id |-> 0, workspace_id |-> 0, pdf_url |-> 0, filename |-> None,
     status |-> None, gmail_message_id |-> None, processed_at |-> NoTime]

\* What a worker's session holds between the reads of a handler and its commit:
\* the objects it loaded and the values it computed.
\* A sync also holds the workspace it syncs, the messages of the search it has
\* not looked at yet, the rows it added to its transaction, and its statistics.
Idle ==
    [pc |-> "idle", op |-> "none", user |-> None, document |-> NoDocument,
     supplier_email |-> None, supplier |-> NoSupplier,
     original_total |-> 0, markup_total |-> 0, invoice_date |-> None,
     workspace_id |-> 0, messages |-> <<>>, added |-> {}, markers |-> {},
     stats |-> NoStats]

-----------------------------------------------------------------------------
(* Blob storage *)

\* The sizes of the files of an empty storage.
NoSizes == [key \in {} |-> 0]

\* Path(filename).suffix.lower()
Suffix(filename) ==
    CASE filename = "invoice.pdf" -> ".pdf"
      [] filename = "SCAN.PNG" -> ".png"
      [] filename = "letter.docx" -> ".docx"
      [] filename = "memo.doc" -> ".doc"
      [] filename = "setup.exe" -> ".exe"
      [] OTHER -> ""

\* delete_document_file: the storage delete succeeds and removes the key, or
\* fails (the file is missing, or the storage raises) and returns False.
delete_document_file(key, fault) ==
    IF key \in blobs /\ ~fault
    THEN [success |-> TRUE, blobs |-> blobs \ {key}]
    ELSE [success |-> FALSE, blobs |-> blobs]

-----------------------------------------------------------------------------
(* Text extraction and AI field extraction *)

TotalNull == [t |-> "null", v |-> 0]
Num(v) == [t |-> "num", v |-> v]
TotalText == [t |-> "str", v |-> 0]

\* What the services outside the repository hand back for one process call:
\* the text library's outcome on the file, whether the AI call and the parse
\* of its answer succeeded, and the fields of the answer.
Extraction(text, ai_ok, email, total, date) ==
    [text |-> text, ai_ok |-> ai_ok, supplier_email |-> email,
     total_amount |-> total, invoice_date |-> date]

GoodExtractions ==
    {Extraction("text", TRUE, "a@x.com", Num(10000), "2025-12-10"),
     Extraction("text", TRUE, "b@x.com", Num(20000), None)}

BadExtractions ==
    {Extraction("short", TRUE, "a@x.com", Num(10000), None),
     Extraction("error", TRUE, "a@x.com", Num(10000), None),
     Extraction("text", FALSE, "a@x.com", Num(10000), None),
     Extraction("text", TRUE, None, Num(10000), "2025-12-10"),
     Extraction("text", TRUE, None, TotalNull, "12/10/2025"),
     Extraction("text", TRUE, "a@x.com", TotalNull, "2025-12-10"),
     Extraction("text", TRUE, "a@x.com", Num(0), None),
     Extraction("text", TRUE, "a@x.com", Num(-500), None),
     Extraction("text", TRUE, "a@x.com", TotalText, None),
     Extraction("text", TRUE, "a@x.com", TotalText, "12/10/2025"),
     Extraction("text", TRUE, "a@x.com", Num(10000), "12/10/2025")}

Extractions == GoodExtractions \cup BadExtractions

extract_text_from_document_word(document, x) ==
    document.pdf_url \in blobs /\ x.text = "text"

\* extract_text_from_document, followed by the length check of process_document:
\* TRUE when at least 10 characters of text came out of the file.  The .doc
\* and .docx branch raises, as does the branch of every other extension.
extract_text_from_document(document, x) ==
    LET ext == Suffix(document.filename) IN
    IF document.pdf_url \notin blobs THEN FALSE
    ELSE IF ext = ".pdf" \/ ext \in {".png", ".jpg", ".jpeg", ".webp"}
         THEN x.text = "text"
         ELSE FALSE

\* date.fromisoformat succeeds
IsISODate(s) == s = "2025-12-10"

\* validate_extracted_data: the error message, as its words; <<>> when valid.
validate_extracted_data(data) ==
    IF data.supplier_email = None
    THEN <<"Missing", "required", "field", "supplier_email">>
    ELSE IF data.total_amount.t = "null" \/ data.total_amount = Num(0)
    THEN <<"Missing", "required", "field", "total_amount">>
    ELSE IF data.total_amount.t = "str"
    THEN <<"Invalid", "total_amount", "abc">>
    ELSE IF data.total_amount.v <= 0
    THEN <<"Total", "amount", "must", "be", "greater", "than", "0">>
    ELSE IF data.invoice_date # None /\ ~IsISODate(data.invoice_date)
    THEN <<"Invalid", "date", "format", data.invoice_date, "expected", "YYYY-MM-DD">>
    ELSE <<>>

\* word in error_message
Contains(message, word) == \E i \in DOMAIN message : message[i] = word

\* str.lower on the words of a message
Lower(word) ==
    CASE word = "Missing" -> "missing"
      [] word = "Invalid" -> "invalid"
      [] word = "Total" -> "total"
      [] word = "YYYY-MM-DD" -> "yyyy-mm-dd"
      [] OTHER -> word

\* The error_type process_document derives from the validation message.
error_type(message) ==
    IF Contains(message, "supplier_email") THEN "missing_email"
    ELSE IF Contains(message, "total_amount") THEN "missing_total"
    ELSE IF \E i \in DOMAIN message : Lower(message[i]) = "date" THEN "invalid_date"
    ELSE "validation_failed"

markup_total_docstring(original_total, markup_percentage) ==
    original_total * (1 + markup_percentage)

\* markup_total = original_total * (1 + supplier.markup_percentage / 100)
markup_total(original_total, markup_percentage) ==
    (original_total * (100 + markup_percentage)) \div 100

-----------------------------------------------------------------------------
(* Initial states *)

\* The store after the two users signed in and each created a workspace.
InitEmpty ==
    /\ workspaces = {[id |-> 1, user_id |-> "u1"], [id |-> 2, user_id |-> "u2"]}
    /\ suppliers = {}
    /\ invoices = {}
    /\ pending_documents = {}
    /\ processed_emails = {}
    /\ blobs = {}
    /\ blob_size = NoSizes
    /\ seq = [supplier |-> 1, invoice |-> 1, document |-> 1, blob |-> 1]
    /\ now = 1
    /\ req = [r \in Workers |-> Idle]
    /\ resp = NoResponse

\* The store after each user also registered suppliers (four create_supplier
\* calls): two suppliers of workspace 1 share an email.
Init ==
    /\ workspaces = {[id |-> 1, user_id |-> "u1"], [id |-> 2, user_id |-> "u2"]}
    /\ suppliers = {Supplier(1, 1, "a@x.com", 15), Supplier(2, 1, "a@x.com", 0),
                    Supplier(3, 1, "b@x.com", 15), Supplier(4, 2, "a@x.com", 0)}
    /\ invoices = {}
    /\ pending_documents = {}
    /\ processed_emails = {}
    /\ blobs = {}
    /\ blob_size = NoSizes
    /\ seq = [supplier |-> 5, invoice |-> 1, document |-> 1, blob |-> 1]
    /\ now = 1
    /\ req = [r \in Workers |-> Idle]
    /\ resp = NoResponse

\* raise HTTPException(...) before the handler wrote anything.
Fail(op, u, code, error, detail) ==
    /\ resp' = Response(op, u, code, error, detail, 0)
    /\ UNCHANGED <<db, blobs, blob_size, seq, now, req>>

\* A commit that fails: the exception ends the request, get_db closes the
\* session, and the transaction is rolled back.
Abort(r, op, code, error, detail) ==
    /\ resp' = Response(op, req[r].user, code, error, detail, 0)
    /\ req' = [req EXCEPT ![r] = Idle]
    /\ UNCHANGED <<db, blobs, blob_size, seq, now>>

\* raise HTTPException(400, detail=f"Document already {document.status.value}"):
\* the column holds a plain string, which has no attribute "value", so building
\* the detail raises AttributeError and the request ends as a server error.
StatusConflict == [code |-> 500, error |-> "Internal"]

-----------------------------------------------------------------------------
(* Suppliers *)

create_supplier(u, w, email, markup) ==
    IF ~WorkspaceOwnedBy(w, u)
    THEN Fail("create_supplier", u, 404, "NotFound", "Workspace not found")
    ELSE /\ seq.supplier <= MaxSuppliers
         /\ suppliers' = suppliers \cup {Supplier(seq.supplier, w, email, markup)}
         /\ seq' = [seq EXCEPT !.supplier = @ + 1]
         /\ resp' = Response("create_supplier", u, 201, "none", "none", seq.supplier)
         /\ UNCHANGED <<workspaces, invoices, pending_documents, processed_emails,
                        blobs, blob_size, now, req>>

\* email and markup are given as sets: empty when the field is not provided.
update_supplier(u, s, email, markup) ==
    LET found == SuppliersOwnedBy(s, u) IN
    IF found = {}
    THEN Fail("update_supplier", u, 404, "NotFound", "Supplier not found")
    ELSE LET supplier == CHOOSE sup \in found : TRUE
             updated == [supplier EXCEPT
                 !.email = IF email = {} THEN @ ELSE CHOOSE e \in email : TRUE,
                 !.markup_percentage = IF markup = {} THEN @ ELSE CHOOSE m \in markup : TRUE]
         IN /\ suppliers' = (suppliers \ {supplier}) \cup {updated}
            /\ resp' = Response("update_supplier", u, 200, "none", "none", s)
            /\ UNCHANGED <<workspaces, invoices, pending_documents, processed_emails,
                           blobs, blob_size, seq, now, req>>

CascadedInvoices_none(supplier) == {}

CascadedInvoices_workspace(supplier) ==
    {inv \in invoices : inv.workspace_id = supplier.workspace_id}

\* The rows db.delete(supplier) removes with the supplier: the relationship
\* Supplier.invoices cascades "all, delete-orphan".
CascadedInvoices(supplier) == {inv \in invoices : inv.supplier_id = supplier.id}

delete_supplier(u, s) ==
    LET found == SuppliersOwnedBy(s, u) IN
    IF found = {}
    THEN Fail("delete_supplier", u, 404, "NotFound", "Supplier not found")
    ELSE LET supplier == CHOOSE sup \in found : TRUE
             invoice_count == Cardinality({inv \in invoices : inv.supplier_id = s})
         IN /\ suppliers' = suppliers \ {supplier}
            /\ invoices' = invoices \ CascadedInvoices(supplier)
            /\ resp' = Response("delete_supplier", u, 200, "none", "none", invoice_count)
            /\ UNCHANGED <<workspaces, pending_documents, processed_emails,
                           blobs, blob_size, seq, now, req>>

-----------------------------------------------------------------------------
(* Documents *)

Filenames == {"invoice.pdf", "letter.docx", "setup.exe"}
Sizes == {MAX_UPLOAD_SIZE, MAX_UPLOAD_SIZE + 1}

upload_document(u, w, filename, size, saved) ==
    IF ~WorkspaceOwnedBy(w, u)
    THEN Fail("upload", u, 404, "NotFound", "Workspace not found")
    ELSE IF Suffix(filename) \notin ALLOWED_EXTENSIONS
    THEN Fail("upload", u, 400, "InvalidInput", "File type not supported")
    ELSE IF size > MAX_UPLOAD_SIZE
    THEN Fail("upload", u, 400, "InvalidInput", "File too large")
    ELSE IF ~saved
    THEN Fail("upload", u, 500, "Internal", "Failed to save file")
    ELSE /\ blobs' = blobs \cup {seq.blob}
         /\ blob_size' = [key \in blobs' |-> IF key \in blobs THEN blob_size[key] ELSE size]
         /\ pending_documents' = pending_documents \cup
                {[id |-> seq.document, workspace_id |-> w, pdf_url |-> seq.blob,
                  filename |-> filename, status |-> "pending",
                  gmail_message_id |-> None, processed_at |-> NoTime]}
         /\ seq' = [seq EXCEPT !.document = @ + 1, !.blob = @ + 1]
         /\ resp' = Response("upload", u, 201, "none", "none", seq.document)
         /\ UNCHANGED <<workspaces, suppliers, invoices, processed_emails, now, req>>

\* The error exits of process_document after the status check: text extraction
\* (500), AI extraction (500), validation (400), supplier matching (400).
process_failure_cleanup(u, document, code, error, detail) ==
    /\ resp' = Response("process", u, code, error, detail, 0)
    /\ blobs' = blobs \ {document.pdf_url}
    /\ blob_size' = [key \in blobs' |-> blob_size[key]]
    /\ UNCHANGED <<db, seq, now, req>>

process_failure_rejects(u, document, code, error, detail) ==
    /\ resp' = Response("process", u, code, error, detail, 0)
    /\ pending_documents' =
           {IF doc.id = document.id THEN [doc EXCEPT !.status = "rejected"] ELSE doc :
               doc \in pending_documents}
    /\ UNCHANGED <<workspaces, suppliers, invoices, processed_emails,
                   blobs, blob_size, seq, now, req>>

process_failure(u, document, code, error, detail) ==
    Fail("process", u, code, error, detail)

\* process_document up to the computation of the markup: fetch the document
\* through its workspace's owner, check its status, extract the text, call the
\* AI extraction, validate its answer, match the supplier by email within the
\* document's workspace (.first() of a query without ORDER BY: any matching
\* row), compute the markup.  None of these writes; the supplier query, which
\* the handler issues after the AI call, reads no row the document query read,
\* so the two are taken in one step.
process_document_begin(r, u, d, x) ==
    /\ req[r].pc = "idle"
    /\ LET found == DocumentsOwnedBy(d, u) IN
       IF found = {}
       THEN Fail("process", u, 404, "NotFound", "Document not found")
       ELSE LET document == CHOOSE doc \in found : TRUE
                message == validate_extracted_data(x)
                matching == SuppliersByEmail(document.workspace_id, x.supplier_email)
            IN IF document.status # "pending"
               THEN Fail("process", u, StatusConflict.code, StatusConflict.error,
                         document.status)
               ELSE IF ~extract_text_from_document(document, x)
               THEN process_failure(u, document, 500, "ExtractionFailed", "none")
               ELSE IF ~x.ai_ok
               THEN process_failure(u, document, 500, "AIExtractionFailed", "none")
               ELSE IF message # <<>>
               THEN process_failure(u, document, 400, "ValidationFailed", error_type(message))
               ELSE IF matching = {}
               THEN process_failure(u, document, 400, "SupplierNotFound", "supplier_not_found")
               ELSE \E supplier \in matching :
                    /\ req' = [req EXCEPT ![r] =
                        [Idle EXCEPT
                            !.pc = "ready", !.op = "process", !.user = u,
                            !.document = document,
                            !.supplier_email = x.supplier_email,
                            !.supplier = supplier,
                            !.original_total = x.total_amount.v,
                            !.markup_total = markup_total(x.total_amount.v,
                                                          supplier.markup_percentage),
                            !.invoice_date = x.invoice_date]]
                    /\ UNCHANGED <<db, blobs, blob_size, seq, now, resp>>

\* The rows the session of worker r holds can be written: the document row is
\* still there to update, and the supplier and workspace the new invoice
\* refers to still exist (foreign keys).
CanCommitInvoice(r) ==
    /\ \E doc \in pending_documents : doc.id = req[r].document.id
    /\ \E sup \in suppliers : sup.id = req[r].supplier.id
    /\ \E w \in workspaces : w.id = req[r].document.workspace_id

UpdateDocument_lost(document, status) == pending_documents

\* The document rows after the session's UPDATE of the row it loaded.
UpdateDocument(document, status) ==
    {IF doc.id = document.id
     THEN [doc EXCEPT !.status = status, !.processed_at = now]
     ELSE doc : doc \in pending_documents}

\* db.add(invoice); document.status = "processed"; document.processed_at = now;
\* db.commit(): one transaction inserts the invoice and updates the document row.
CommitInvoice(r, op) ==
    IF ~CanCommitInvoice(r)
    THEN Abort(r, op, 500, "Internal", "commit failed")
    ELSE /\ seq.invoice <= MaxInvoices
         /\ invoices' = invoices \cup
                {[id |-> seq.invoice,
                  workspace_id |-> req[r].document.workspace_id,
                  supplier_id |-> req[r].supplier.id,
                  pdf_url |-> req[r].document.pdf_url,
                  original_total |-> req[r].original_total,
                  markup_total |-> req[r].markup_total,
                  invoice_date |-> req[r].invoice_date]}
         /\ pending_documents' = UpdateDocument(req[r].document, "processed")
         /\ seq' = [seq EXCEPT !.invoice = @ + 1]
         /\ now' = now + 1
         /\ req' = [req EXCEPT ![r] = Idle]
         /\ resp' = Response(op, req[r].user, 200, "none", "none", seq.invoice)
         /\ UNCHANGED <<workspaces, suppliers, processed_emails, blobs, blob_size>>

process_document_commit(r) ==
    /\ req[r].pc = "ready"
    /\ req[r].op = "process"
    /\ CommitInvoice(r, "process")

\* create_invoice_manual up to the computation of the markup.
\* invoice_data: supplier_id s, original_total t (> 0 by the schema), invoice_date.
create_invoice_manual_begin(r, u, d, s, t, invoice_date) ==
    /\ req[r].pc = "idle"
    /\ LET found == DocumentsOwnedBy(d, u) IN
       IF found = {}
       THEN Fail("manual", u, 404, "NotFound", "Document not found")
       ELSE LET document == CHOOSE doc \in found : TRUE
                matching == SuppliersInWorkspace(s, document.workspace_id)
            IN IF document.status # "pending"
               THEN Fail("manual", u, StatusConflict.code, StatusConflict.error,
                         document.status)
               ELSE IF matching = {}
               THEN Fail("manual", u, 404, "NotFound", "Supplier not found in this workspace")
               ELSE LET supplier == CHOOSE sup \in matching : TRUE IN
                    /\ req' = [req EXCEPT ![r] =
                        [Idle EXCEPT
                            !.pc = "ready", !.op = "manual", !.user = u,
                            !.document = document,
                            !.supplier = supplier,
                            !.original_total = t,
                            !.markup_total = markup_total(t, supplier.markup_percentage),
                            !.invoice_date = invoice_date]]
                    /\ UNCHANGED <<db, blobs, blob_size, seq, now, resp>>

create_invoice_manual_commit(r) ==
    /\ req[r].pc = "ready"
    /\ req[r].op = "manual"
    /\ CommitInvoice(r, "manual")

reject_allowed_unless_rejected(document) == document.status # "rejected"

\* reject_document's status check: TRUE when the handler goes on.
reject_allowed(document) == document.status = "pending"

\* reject_document up to the deletion of the file.
reject_document_begin(r, u, d, fault) ==
    /\ req[r].pc = "idle"
    /\ LET found == DocumentsOwnedBy(d, u) IN
       IF found = {}
       THEN Fail("reject", u, 404, "NotFound", "Document not found")
       ELSE LET document == CHOOSE doc \in found : TRUE IN
            IF ~reject_allowed(document)
            THEN Fail("reject", u, StatusConflict.code, StatusConflict.error,
                      document.status)
            ELSE /\ blobs' = delete_document_file(document.pdf_url, fault).blobs
                 /\ blob_size' = [key \in blobs' |-> blob_size[key]]
                 /\ req' = [req EXCEPT ![r] =
                        [Idle EXCEPT !.pc = "ready", !.op = "reject", !.user = u,
                                     !.document = document]]
                 /\ UNCHANGED <<db, seq, now, resp>>

reject_document_commit_strict(r) ==
    /\ req[r].pc = "ready"
    /\ req[r].op = "reject"
    /\ IF req[r].document.pdf_url \in blobs
       THEN Abort(r, "reject", 500, "Internal", "Failed to delete file")
       ELSE /\ pending_documents' = UpdateDocument(req[r].document, "rejected")
            /\ now' = now + 1
            /\ req' = [req EXCEPT ![r] = Idle]
            /\ resp' = Response("reject", req[r].user, 204, "none", "none", 0)
            /\ UNCHANGED <<workspaces, suppliers, invoices, processed_emails, blobs, blob_size, seq>>

\* document.status = "rejected"; document.processed_at = now; db.commit()
reject_document_commit(r) ==
    /\ req[r].pc = "ready"
    /\ req[r].op = "reject"
    /\ IF ~\E doc \in pending_documents : doc.id = req[r].document.id
       THEN Abort(r, "reject", 500, "Internal", "commit failed")
       ELSE /\ pending_documents' = UpdateDocument(req[r].document, "rejected")
            /\ now' = now + 1
            /\ req' = [req EXCEPT ![r] = Idle]
            /\ resp' = Response("reject", req[r].user, 204, "none", "none", 0)
            /\ UNCHANGED <<workspaces, suppliers, invoices, processed_emails, blobs, blob_size, seq>>

-----------------------------------------------------------------------------
(* Invoices *)

delete_invoice_strict(u, i, fault) ==
    LET found == InvoicesOwnedBy(i, u) IN
    IF found = {}
    THEN Fail("delete_invoice", u, 404, "NotFound", "Invoice not found")
    ELSE LET invoice == CHOOSE inv \in found : TRUE IN
         IF ~delete_document_file(invoice.pdf_url, fault).success
         THEN Fail("delete_invoice", u, 500, "Internal", "Failed to delete file")
         ELSE /\ blobs' = delete_document_file(invoice.pdf_url, fault).blobs
              /\ blob_size' = [key \in blobs' |-> blob_size[key]]
              /\ invoices' = invoices \ {invoice}
              /\ resp' = Response("delete_invoice", u, 204, "none", "none", 0)
              /\ UNCHANGED <<workspaces, suppliers, pending_documents, processed_emails,
                             seq, now, req>>

delete_invoice(u, i, fault) ==
    LET found == InvoicesOwnedBy(i, u) IN
    IF found = {}
    THEN Fail("delete_invoice", u, 404, "NotFound", "Invoice not found")
    ELSE LET invoice == CHOOSE inv \in found : TRUE IN
         /\ blobs' = delete_document_file(invoice.pdf_url, fault).blobs
         /\ blob_size' = [key \in blobs' |-> blob_size[key]]
         /\ invoices' = invoices \ {invoice}
         /\ resp' = Response("delete_invoice", u, 204, "none", "none", 0)
         /\ UNCHANGED <<workspaces, suppliers, pending_documents, processed_emails,
                        seq, now, req>>

-----------------------------------------------------------------------------
(* Workspaces *)

HasSuppliers_never(w) == FALSE

\* supplier_count > 0
HasSuppliers(w) == \E sup \in suppliers : sup.workspace_id = w

\* invoice_count > 0
HasInvoices(w) == \E inv \in invoices : inv.workspace_id = w

delete_workspace_nocascade(u, w) ==
    IF ~WorkspaceOwnedBy(w, u)
    THEN Fail("delete_workspace", u, 404, "NotFound", "Workspace not found")
    ELSE IF HasSuppliers(w)
    THEN Fail("delete_workspace", u, 400, "InvalidInput", "Cannot delete workspace with supplier(s)")
    ELSE IF HasInvoices(w)
    THEN Fail("delete_workspace", u, 400, "InvalidInput", "Cannot delete workspace with invoice(s)")
    ELSE /\ workspaces' = {x \in workspaces : x.id # w}
         /\ resp' = Response("delete_workspace", u, 204, "none", "none", 0)
         /\ UNCHANGED <<suppliers, invoices, pending_documents, processed_emails,
                        blobs, blob_size, seq, now, req>>

\* db.delete(workspace): the relationships of Workspace cascade
\* "all, delete-orphan" to its suppliers, invoices, pending documents and
\* processed-email markers.  The blobs of the deleted rows stay in storage.
delete_workspace(u, w) ==
    IF ~WorkspaceOwnedBy(w, u)
    THEN Fail("delete_workspace", u, 404, "NotFound", "Workspace not found")
    ELSE IF HasSuppliers(w)
    THEN Fail("delete_workspace", u, 400, "InvalidInput", "Cannot delete workspace with supplier(s)")
    ELSE IF HasInvoices(w)
    THEN Fail("delete_workspace", u, 400, "InvalidInput", "Cannot delete workspace with invoice(s)")
    ELSE /\ workspaces' = {x \in workspaces : x.id # w}
         /\ suppliers' = {x \in suppliers : x.workspace_id # w}
         /\ invoices' = {x \in invoices : x.workspace_id # w}
         /\ pending_documents' = {x \in pending_documents : x.workspace_id # w}
         /\ processed_emails' = {x \in processed_emails : x.workspace_id # w}
         /\ resp' = Response("delete_workspace", u, 204, "none", "none", 0)
         /\ UNCHANGED <<blobs, blob_size, seq, now, req>>

-----------------------------------------------------------------------------
(* Listings and search *)

\* What a response shows of a row: its kind, its id and its workspace.
Row(kind, x) == [kind |-> kind, id |-> x.id, workspace_id |-> x.workspace_id]

\* A handler that returns rows and writes nothing.
Return(op, u, rows) ==
    /\ resp' = [Response(op, u, 200, "none", "none", Cardinality(rows)) EXCEPT !.data = rows]
    /\ UNCHANGED <<db, blobs, blob_size, seq, now, req>>

list_suppliers(u, w) ==
    IF ~WorkspaceOwnedBy(w, u)
    THEN Fail("list_suppliers", u, 404, "NotFound", "Workspace not found")
    ELSE Return("list_suppliers", u,
                {Row("supplier", sup) : sup \in {x \in suppliers : x.workspace_id = w}})

list_documents(u, w, status_filter) ==
    IF ~WorkspaceOwnedBy(w, u)
    THEN Fail("list_documents", u, 404, "NotFound", "Workspace not found")
    ELSE Return("list_documents", u,
                {Row("document", doc) :
                    doc \in {x \in pending_documents :
                                x.workspace_id = w /\ x.status = status_filter}})

list_invoices(u, w) ==
    IF ~WorkspaceOwnedBy(w, u)
    THEN Fail("list_invoices", u, 404, "NotFound", "Workspace not found")
    ELSE Return("list_invoices", u,
                {Row("invoice", inv) : inv \in {x \in invoices : x.workspace_id = w}})

get_invoice(u, i) ==
    IF InvoicesOwnedBy(i, u) = {}
    THEN Fail("get_invoice", u, 404, "NotFound", "Invoice not found")
    ELSE Return("get_invoice", u, {Row("invoice", inv) : inv \in InvoicesOwnedBy(i, u)})

\* The search terms of the model, and the values that contain them
\* (LIKE %q% on the lowered value).  Suppliers carry no name in the model.
SearchTerms == {"x.com", "invoice", "2025", "zz"}

Like(text, q) ==
    <<text, q>> \in {<<"a@x.com", "x.com">>, <<"b@x.com", "x.com">>,
                     <<"invoice.pdf", "invoice">>, <<"2025-12-10", "2025">>}

\* GET /search: the invoices, suppliers and documents of workspace w that match
\* q.  The handler filters the three queries by workspace_id and never looks at
\* the owner of the workspace.
global_search(u, w, q) ==
    Return("search", u,
           {Row("invoice", inv) :
               inv \in {x \in invoices : x.workspace_id = w /\ Like(x.invoice_date, q)}}
           \cup {Row("supplier", sup) :
               sup \in {x \in suppliers : x.workspace_id = w /\ Like(x.email, q)}}
           \cup {Row("document", doc) :
               doc \in {x \in pending_documents : x.workspace_id = w /\ Like(x.filename, q)}})

-----------------------------------------------------------------------------
(* Consolidated invoices *)

\* The calendar dates of the model and their order (date.toordinal, counted
\* from 2025-12-08).
Dates == {"2025-12-09", "2025-12-10", "2025-12-11"}

toordinal(date) ==
    CASE date = "2025-12-09" -> 1
      [] date = "2025-12-10" -> 2
      [] date = "2025-12-11" -> 3

\* sum(row.column for row in rows)
RECURSIVE sum(_, _)
sum(rows, column) ==
    IF rows = {} THEN 0
    ELSE LET row == CHOOSE x \in rows : TRUE
         IN row[column] + sum(rows \ {row}, column)

\* preview: Invoice.workspace_id == workspace_id, Invoice.invoice_date >= start_date,
\* Invoice.invoice_date <= end_date.  A comparison with a NULL date is not true.
PreviewSelection(w, start_date, end_date) ==
    {inv \in invoices :
        /\ inv.workspace_id = w
        /\ inv.invoice_date # None
        /\ toordinal(inv.invoice_date) >= toordinal(start_date)
        /\ toordinal(inv.invoice_date) <= toordinal(end_date)}

GenerateSelection_exclusive(w, start_date, end_date) ==
    {inv \in invoices :
        /\ inv.workspace_id = w
        /\ inv.invoice_date # None
        /\ toordinal(inv.invoice_date) >= toordinal(start_date)
        /\ toordinal(inv.invoice_date) < toordinal(end_date)}

\* generate: the same three filters, ordered by invoice_date.
GenerateSelection(w, start_date, end_date) ==
    {inv \in invoices :
        /\ inv.workspace_id = w
        /\ inv.invoice_date # None
        /\ toordinal(inv.invoice_date) >= toordinal(start_date)
        /\ toordinal(inv.invoice_date) <= toordinal(end_date)}

preview_consolidated_invoice(u, w, start_date, end_date) ==
    IF ~WorkspaceOwnedBy(w, u)
    THEN Fail("preview", u, 404, "NotFound", "Workspace not found")
    ELSE IF toordinal(end_date) < toordinal(start_date)
    THEN Fail("preview", u, 400, "InvalidInput", "End date must be after start date")
    ELSE LET selected == PreviewSelection(w, start_date, end_date)
             invoice_count == Cardinality(selected)
             total_original == sum(selected, "original_total")
             total_billed == sum(selected, "markup_total")
             total_markup == total_billed - total_original
         IN /\ resp' = [Response("preview", u, 200, "none", "none", invoice_count) EXCEPT
                           !.data = {Row("invoice", inv) : inv \in selected},
                           !.totals = [total_original |-> total_original,
                                       total_markup |-> total_markup,
                                       total_billed |-> total_billed]]
            /\ UNCHANGED <<db, blobs, blob_size, seq, now, req>>

\* ConsolidatedInvoiceData.calculate_total: the sum of the items' amounts, and
\* the amount of an item is the markup_total of its invoice.
calculate_total(invoice_items) == sum(invoice_items, "markup_total")

\* The response stands for the PDF: its items and its grand total.
generate_consolidated_invoice(u, w, start_date, end_date) ==
    IF ~WorkspaceOwnedBy(w, u)
    THEN Fail("generate", u, 404, "NotFound", "Workspace not found")
    ELSE IF toordinal(end_date) < toordinal(start_date)
    THEN Fail("generate", u, 400, "InvalidInput", "End date must be after start date")
    ELSE LET selected == GenerateSelection(w, start_date, end_date) IN
         IF selected = {}
         THEN Fail("generate", u, 400, "InvalidInput", "No invoices found")
         ELSE /\ resp' = [Response("generate", u, 200, "none", "none", Cardinality(selected)) EXCEPT
                             !.data = {Row("invoice", inv) : inv \in selected},
                             !.totals = [NoTotals EXCEPT
                                            !.total_billed = calculate_total(selected)]]
              /\ UNCHANGED <<db, blobs, blob_size, seq, now, req>>

-----------------------------------------------------------------------------
(* Inbox sync *)

\* The error mapping of the sync endpoint: it looks for "refresh" and "quota"
\* in the message of the exception.
sync_error(outcome) ==
    CASE outcome = "refresh" -> [code |-> 400, error |-> "InvalidInput"]
      [] outcome = "quota" -> [code |-> 429, error |-> "RateLimited"]
      [] OTHER -> [code |-> 500, error |-> "Internal"]

\* POST /gmail/sync up to the search: the workspace must be the caller's, the
\* caller must hold a refresh token, the access token is refreshed, and the
\* mailbox is searched.  messages is the sequence of identifiers the search
\* returns.
sync_gmail_begin(r, u, w, refresh_token, outcome, messages) ==
    /\ req[r].pc = "idle"
    /\ IF ~WorkspaceOwnedBy(w, u)
       THEN Fail("sync", u, 404, "NotFound", "Workspace not found")
       ELSE IF ~refresh_token
       THEN Fail("sync", u, 400, "InvalidInput", "Gmail access not authorized")
       ELSE IF outcome # "ok"
       THEN Fail("sync", u, sync_error(outcome).code, sync_error(outcome).error,
                 "Gmail sync failed")
       ELSE /\ req' = [req EXCEPT ![r] =
                   [Idle EXCEPT !.pc = "syncing", !.op = "sync", !.user = u,
                                !.workspace_id = w, !.messages = messages,
                                !.stats = [NoStats EXCEPT
                                              !.emails_scanned = Len(messages)]]]
            /\ UNCHANGED <<db, blobs, blob_size, seq, now, resp>>

existing_unchecked(message_id) == FALSE

\* db.query(ProcessedEmail).filter(ProcessedEmail.gmail_message_id == message_id)
\* .first(): the committed rows.  The session does not autoflush, so the query
\* does not see the markers the session added itself.
existing(message_id) ==
    \E e \in processed_emails : e.gmail_message_id = message_id

\* The documents a sync adds for the n attachments it saved from a message;
\* they get their ids when the transaction is flushed.
SyncedDocuments(w, message_id, n) ==
    {[id |-> 0, workspace_id |-> w, pdf_url |-> seq.blob + k,
      filename |-> "invoice.pdf", status |-> "pending",
      gmail_message_id |-> message_id, processed_at |-> NoTime] : k \in 0..(n - 1)}

\* One turn of the loop over the messages: skip a message already processed;
\* otherwise fetch it (an error ends the sync and rolls its transaction back),
\* save its n PDF attachments, each of size bytes, whatever their size, and add
\* a document per attachment and the message's marker to the transaction.
sync_message(r, outcome, n, size) ==
    /\ req[r].pc = "syncing"
    /\ req[r].messages # <<>>
    /\ LET message_id == Head(req[r].messages)
           rest == Tail(req[r].messages)
       IN IF existing(message_id)
          THEN /\ req' = [req EXCEPT ![r].messages = rest,
                                     ![r].stats.duplicates_skipped = @ + 1]
               /\ UNCHANGED <<db, blobs, blob_size, seq, now, resp>>
          ELSE IF outcome # "ok"
          THEN Abort(r, "sync", sync_error(outcome).code, sync_error(outcome).error,
                     "Gmail sync failed")
          ELSE IF n = 0
          THEN /\ req' = [req EXCEPT ![r].messages = rest]
               /\ UNCHANGED <<db, blobs, blob_size, seq, now, resp>>
          ELSE /\ blobs' = blobs \cup {seq.blob + k : k \in 0..(n - 1)}
               /\ blob_size' = [key \in blobs' |-> IF key \in blobs THEN blob_size[key] ELSE size]
               /\ seq' = [seq EXCEPT !.blob = @ + n]
               /\ req' = [req EXCEPT
                     ![r].messages = rest,
                     ![r].added = @ \cup SyncedDocuments(req[r].workspace_id, message_id, n),
                     ![r].markers = @ \cup {message_id},
                     ![r].stats.invoices_detected = @ + n,
                     ![r].stats.documents_created = @ + n]
               /\ UNCHANGED <<db, now, resp>>

CanCommitSync_nokey(r) == \E w \in workspaces : w.id = req[r].workspace_id

\* The transaction of worker r can be committed: no marker it inserts has the
\* primary key of a committed marker, and the workspace its rows refer to exists.
CanCommitSync(r) ==
    /\ \A e \in processed_emails : e.gmail_message_id \notin req[r].markers
    /\ \E w \in workspaces : w.id = req[r].workspace_id

sync_commit_unmarked(r) ==
    /\ req[r].pc = "syncing"
    /\ req[r].messages = <<>>
    /\ pending_documents' = pending_documents \cup
           {[doc EXCEPT !.id = seq.document +
                Cardinality({o \in req[r].added : o.pdf_url < doc.pdf_url})] :
               doc \in req[r].added}
    /\ seq' = [seq EXCEPT !.document = @ + Cardinality(req[r].added)]
    /\ resp' = [Response("sync", req[r].user, 200, "none", "none", 0)
                   EXCEPT !.stats = req[r].stats]
    /\ req' = [req EXCEPT ![r] = Idle]
    /\ UNCHANGED <<workspaces, suppliers, invoices, processed_emails, blobs, blob_size, now>>

\* db.commit() after the loop, and the statistics returned.
sync_commit(r) ==
    /\ req[r].pc = "syncing"
    /\ req[r].messages = <<>>
    /\ IF ~CanCommitSync(r)
       THEN Abort(r, "sync", 500, "Internal", "Gmail sync failed")
       ELSE /\ pending_documents' = pending_documents \cup
                   {[doc EXCEPT !.id = seq.document +
                        Cardinality({o \in req[r].added : o.pdf_url < doc.pdf_url})] :
                       doc \in req[r].added}
            /\ seq' = [seq EXCEPT !.document = @ + Cardinality(req[r].added)]
            /\ processed_emails' = processed_emails \cup
                   {[gmail_message_id |-> m, workspace_id |-> req[r].workspace_id] :
                       m \in req[r].markers}
            /\ resp' = [Response("sync", req[r].user, 200, "none", "none", 0)
                           EXCEPT !.stats = req[r].stats]
            /\ req' = [req EXCEPT ![r] = Idle]
            /\ UNCHANGED <<workspaces, suppliers, invoices, blobs, blob_size, now>>

-----------------------------------------------------------------------------
(* Spec: the derivation pipeline served by one worker, with every outcome of
   the text and AI extraction, both tenants calling. *)

Next ==
    \/ /\ seq.document <= PipelineDocuments
       /\ \E u \in Users, w \in {1, 2}, f \in Filenames, z \in Sizes, ok \in BOOLEAN :
             upload_document(u, w, f, z, ok)
    \/ \E u \in Users, d \in 1..PipelineDocuments, x \in Extractions :
          process_document_begin("w1", u, d, x)
    \/ process_document_commit("w1")
    \/ \E u \in Users, d \in 1..PipelineDocuments, s \in 1..4, t \in Totals :
          create_invoice_manual_begin("w1", u, d, s, t, None)
    \/ create_invoice_manual_commit("w1")
    \/ \E u \in Users, d \in 1..PipelineDocuments, fault \in BOOLEAN :
          reject_document_begin("w1", u, d, fault)
    \/ reject_document_commit("w1")
    \/ \E u \in Users, i \in InvoiceIds, fault \in BOOLEAN : delete_invoice(u, i, fault)

Spec == Init /\ [][Next]_vars

-----------------------------------------------------------------------------
(* SpecRace: two workers serve derivation and rejection calls on the same
   documents; their reads and commits interleave. *)

RaceExtractions ==
    {Extraction("text", TRUE, "a@x.com", Num(10000), "2025-12-10"),
     Extraction("text", TRUE, "a@x.com", TotalNull, "2025-12-10")}

NextRace ==
    \/ /\ seq.document <= RaceDocuments
       /\ upload_document("u1", 1, "invoice.pdf", MAX_UPLOAD_SIZE, TRUE)
    \/ \E r \in Workers, u \in Users, d \in 1..RaceDocuments, x \in RaceExtractions :
          process_document_begin(r, u, d, x)
    \/ \E r \in Workers : process_document_commit(r)
    \/ \E r \in Workers, u \in Users, d \in 1..RaceDocuments, s \in {1, 4} :
          create_invoice_manual_begin(r, u, d, s, 10000, None)
    \/ \E r \in Workers : create_invoice_manual_commit(r)
    \/ \E r \in Workers, u \in Users, d \in 1..RaceDocuments, fault \in BOOLEAN :
          reject_document_begin(r, u, d, fault)
    \/ \E r \in Workers : reject_document_commit(r)
    \/ \E i \in InvoiceIds : delete_invoice("u1", i, FALSE)

SpecRace == Init /\ [][NextRace]_vars

-----------------------------------------------------------------------------
(* SpecSuppliers: suppliers are updated and deleted while documents are
   uploaded and turned into invoices. *)

SupplierExtractions == {Extraction("text", TRUE, "a@x.com", Num(10000), "2025-12-10")}

\* The fields an update provides: each is a set, empty when the field is absent.
EmailUpdates == {{}, {"b@x.com"}}
MarkupUpdates == {{}, {0}}

\* The store after u1 registered suppliers 1 and 2 in workspace 1 and u2
\* supplier 3 in workspace 2 (three create_supplier calls).
InitSuppliers ==
    /\ workspaces = {[id |-> 1, user_id |-> "u1"], [id |-> 2, user_id |-> "u2"]}
    /\ suppliers = {Supplier(1, 1, "a@x.com", 15), Supplier(2, 1, "b@x.com", 15),
                    Supplier(3, 2, "a@x.com", 0)}
    /\ invoices = {}
    /\ pending_documents = {}
    /\ processed_emails = {}
    /\ blobs = {}
    /\ blob_size = NoSizes
    /\ seq = [supplier |-> 4, invoice |-> 1, document |-> 1, blob |-> 1]
    /\ now = 1
    /\ req = [r \in Workers |-> Idle]
    /\ resp = NoResponse

NextSuppliers ==
    \/ \E s \in 1..3, e \in EmailUpdates, m \in MarkupUpdates :
          update_supplier("u1", s, e, m)
    \/ \E u \in Users, s \in 1..3 : delete_supplier(u, s)
    \/ /\ seq.document <= SupplierDocuments
       /\ upload_document("u1", 1, "invoice.pdf", MAX_UPLOAD_SIZE, TRUE)
    \/ \E d \in 1..SupplierDocuments, x \in SupplierExtractions :
          process_document_begin("w1", "u1", d, x)
    \/ process_document_commit("w1")
    \/ \E d \in 1..SupplierDocuments, s \in 1..3 :
          create_invoice_manual_begin("w1", "u1", d, s, 20000, None)
    \/ create_invoice_manual_commit("w1")

SpecSuppliers == InitSuppliers /\ [][NextSuppliers]_vars

-----------------------------------------------------------------------------
(* SpecSync: syncs of the workspaces of one mailbox owner, served by two
   workers, with a second tenant calling. *)

SyncDocuments == 2      \* attachments saved by syncs
MaxAttachments == 1     \* PDF attachments saved from one message

SearchResults == {<<"m1">>, <<"m2", "m1">>}

\* u1 owns workspaces 1 and 3, u2 owns workspace 2.
InitSync ==
    /\ workspaces = {[id |-> 1, user_id |-> "u1"], [id |-> 2, user_id |-> "u2"],
                     [id |-> 3, user_id |-> "u1"]}
    /\ suppliers = {}
    /\ invoices = {}
    /\ pending_documents = {}
    /\ processed_emails = {}
    /\ blobs = {}
    /\ blob_size = NoSizes
    /\ seq = [supplier |-> 1, invoice |-> 1, document |-> 1, blob |-> 1]
    /\ now = 1
    /\ req = [r \in Workers |-> Idle]
    /\ resp = NoResponse

NextSync ==
    \/ \E r \in Workers, u \in Users, w \in {1, 3}, t \in BOOLEAN,
          o \in {"ok", "refresh"}, ms \in SearchResults :
          sync_gmail_begin(r, u, w, t, o, ms)
    \/ \E r \in Workers, o \in {"ok", "quota", "error"}, n \in 0..MaxAttachments :
          /\ seq.blob + n <= SyncDocuments + 1
          /\ sync_message(r, o, n, MAX_UPLOAD_SIZE)
    \/ \E r \in Workers : sync_commit(r)

SpecSync == InitSync /\ [][NextSync]_vars

-----------------------------------------------------------------------------
(* SpecIsolation: u1 fills its workspace 1; u1 and u2 call every operation on
   workspace 1 and on the suppliers, documents and invoices in it. *)

IsolationDocuments == 1     \* uploads in SpecIsolation

IsolationExtractions == {Extraction("text", TRUE, "a@x.com", Num(10000), "2025-12-10")}

NextIsolation ==
    \/ \E u \in Users, m \in Markups : create_supplier(u, 1, "a@x.com", m)
    \/ \E u \in Users, s \in SupplierIds : update_supplier(u, s, {}, {0})
    \/ \E u \in Users, s \in SupplierIds : delete_supplier(u, s)
    \/ /\ seq.document <= IsolationDocuments
       /\ \E u \in Users : upload_document(u, 1, "invoice.pdf", MAX_UPLOAD_SIZE, TRUE)
    \/ \E u \in Users, d \in 1..IsolationDocuments, x \in IsolationExtractions :
          process_document_begin("w1", u, d, x)
    \/ process_document_commit("w1")
    \/ \E u \in Users, d \in 1..IsolationDocuments, s \in SupplierIds :
          create_invoice_manual_begin("w1", u, d, s, 10000, None)
    \/ create_invoice_manual_commit("w1")
    \/ \E u \in Users, d \in 1..IsolationDocuments :
          reject_document_begin("w1", u, d, FALSE)
    \/ reject_document_commit("w1")
    \/ \E u \in Users, i \in InvoiceIds : delete_invoice(u, i, FALSE)
    \/ \E u \in Users : sync_gmail_begin("w2", u, 1, TRUE, "refresh", <<>>)
    \/ \E u \in Users : list_suppliers(u, 1)
    \/ \E u \in Users : list_documents(u, 1, "pending")
    \/ \E u \in Users : list_invoices(u, 1)
    \/ \E u \in Users, i \in InvoiceIds : get_invoice(u, i)
    \/ \E u \in Users, q \in SearchTerms : global_search(u, 1, q)

SpecIsolation == InitEmpty /\ [][NextIsolation]_vars

-----------------------------------------------------------------------------
(* SpecWorkspaces: both users fill, empty and delete the two workspaces:
   suppliers are created and deleted, documents are uploaded and turned into
   invoices by hand, invoices are deleted. *)

WorkspaceDocuments == 1     \* uploads in SpecWorkspaces

NextWorkspaces ==
    \/ \E u \in Users, w \in {1, 2} : create_supplier(u, w, "a@x.com", 15)
    \/ \E u \in Users, s \in SupplierIds : delete_supplier(u, s)
    \/ /\ seq.document <= WorkspaceDocuments
       /\ \E u \in Users, w \in {1, 2} :
            upload_document(u, w, "invoice.pdf", MAX_UPLOAD_SIZE, TRUE)
    \/ \E u \in Users, d \in 1..WorkspaceDocuments, s \in SupplierIds :
            create_invoice_manual_begin("w1", u, d, s, 10000, None)
    \/ create_invoice_manual_commit("w1")
    \/ \E u \in Users, i \in InvoiceIds : delete_invoice(u, i, FALSE)
    \/ \E u \in Users, w \in {1, 2} : delete_workspace(u, w)

SpecWorkspaces == InitEmpty /\ [][NextWorkspaces]_vars

-----------------------------------------------------------------------------
(* SpecBilling: each user uploads documents to its workspace and turns them
   into invoices by hand, dated or undated in workspace 1; u1 previews and
   generates the consolidated invoice of both workspaces. *)

BillingDocuments == 2     \* uploads in SpecBilling

\* The date ranges requested: one day, two days ending on that day, and a
\* range that ends before it starts.
BillingRanges ==
    {<<"2025-12-10", "2025-12-10">>, <<"2025-12-09", "2025-12-10">>,
     <<"2025-12-11", "2025-12-10">>}

NextBilling ==
    \/ /\ seq.document <= BillingDocuments
       /\ \E w \in {1, 2} :
            upload_document(IF w = 1 THEN "u1" ELSE "u2", w, "invoice.pdf",
                            MAX_UPLOAD_SIZE, TRUE)
    \/ \E d \in 1..BillingDocuments, date \in Dates \cup {None} :
            create_invoice_manual_begin("w1", "u1", d, 1, 10000, date)
    \/ \E d \in 1..BillingDocuments :
            create_invoice_manual_begin("w1", "u2", d, 3, 20000, "2025-12-10")
    \/ create_invoice_manual_commit("w1")
    \/ \E w \in {1, 2}, range \in BillingRanges :
            preview_consolidated_invoice("u1", w, range[1], range[2])
    \/ \E w \in {1, 2}, range \in BillingRanges :
            generate_consolidated_invoice("u1", w, range[1], range[2])

SpecBilling == InitSuppliers /\ [][NextBilling]_vars

-----------------------------------------------------------------------------
(* SpecIntake: the two ways a document comes in.  u1 uploads files of every
   extension and size to workspace 1 and syncs the mailbox into it; the
   attachments of a message are PDF files of either size. *)

IntakeDocuments == 2     \* files saved in SpecIntake

NextIntake ==
    \/ /\ seq.blob <= IntakeDocuments
       /\ \E f \in Filenames, z \in Sizes, ok \in BOOLEAN :
            upload_document("u1", 1, f, z, ok)
    \/ \E ms \in SearchResults : sync_gmail_begin("w1", "u1", 1, TRUE, "ok", ms)
    \/ \E n \in 0..MaxAttachments, z \in Sizes :
          /\ seq.blob + n <= IntakeDocuments + 1
          /\ sync_message("w1", "ok", n, z)
    \/ sync_commit("w1")

SpecIntake == InitEmpty /\ [][NextIntake]_vars

-----------------------------------------------------------------------------
(* SpecIntegrity: every operation that deletes rows, next to the ones that
   create them, each called by the owner of what it is called on.  Workspace 1
   gets its documents from syncs of u1's mailbox, workspace 2 from uploads of
   u2; suppliers, invoices and workspaces are created and deleted while a
   derivation or a sync is under way. *)

IntegrityDocuments == 1     \* files saved in SpecIntegrity

NextIntegrity ==
    \/ \E w \in {1, 2} : create_supplier(IF w = 1 THEN "u1" ELSE "u2", w, "a@x.com", 15)
    \/ \E u \in Users, s \in SupplierIds :
            SuppliersOwnedBy(s, u) # {} /\ delete_supplier(u, s)
    \/ /\ seq.blob <= IntegrityDocuments
       /\ upload_document("u2", 2, "invoice.pdf", MAX_UPLOAD_SIZE, TRUE)
    \/ \E u \in Users, d \in 1..IntegrityDocuments, s \in SupplierIds :
            /\ DocumentsOwnedBy(d, u) # {}
            /\ SuppliersOwnedBy(s, u) # {}
            /\ create_invoice_manual_begin("w1", u, d, s, 10000, None)
    \/ create_invoice_manual_commit("w1")
    \/ \E u \in Users, i \in InvoiceIds :
            InvoicesOwnedBy(i, u) # {} /\ delete_invoice(u, i, FALSE)
    \/ sync_gmail_begin("w2", "u1", 1, TRUE, "ok", <<"m1">>)
    \/ /\ seq.blob <= IntegrityDocuments
       /\ sync_message("w2", "ok", 1, MAX_UPLOAD_SIZE)
    \/ sync_commit("w2")
    \/ \E u \in Users, w \in {1, 2} : WorkspaceOwnedBy(w, u) /\ delete_workspace(u, w)

SpecIntegrity == InitEmpty /\ [][NextIntegrity]_vars

-----------------------------------------------------------------------------
(* SpecWord: Word documents and a PDF uploaded to workspace 1, then processed
   by either user and entered manually or rejected by their owner.  The text
   library and the AI answer well, or the library fails, or the AI does. *)

WordDocuments == 2      \* uploads in SpecWord

WordFilenames == {"letter.docx", "memo.doc"}

WordExtractions ==
    {Extraction("text", TRUE, "b@x.com", Num(20000), None),
     Extraction("error", TRUE, "a@x.com", Num(10000), None),
     Extraction("text", FALSE, "a@x.com", Num(10000), None)}

NextWord ==
    \/ /\ seq.document <= WordDocuments
       /\ \E f \in WordFilenames \cup {"invoice.pdf"} :
             upload_document("u1", 1, f, MAX_UPLOAD_SIZE, TRUE)
    \/ \E u \in Users, d \in 1..WordDocuments, x \in WordExtractions :
          process_document_begin("w1", u, d, x)
    \/ process_document_commit("w1")
    \/ \E d \in 1..WordDocuments :
          create_invoice_manual_begin("w1", "u1", d, 1, 10000, None)
    \/ create_invoice_manual_commit("w1")
    \/ \E d \in 1..WordDocuments :
          reject_document_begin("w1", "u1", d, FALSE)
    \/ reject_document_commit("w1")

SpecWord == Init /\ [][NextWord]_vars

-----------------------------------------------------------------------------
(* Properties *)

Terminal == {"processed", "rejected"}

\* A step is the first step of a process, createInvoiceManual or reject call on
\* document d, by any caller on any worker.
DerivationCall(d) ==
    \E r \in Workers, u \in Users :
        \/ \E x \in RaceExtractions : process_document_begin(r, u, d, x)
        \/ \E s \in {1, 4} : create_invoice_manual_begin(r, u, d, s, 10000, None)
        \/ \E fault \in BOOLEAN : reject_document_begin(r, u, d, fault)

\* A worker loaded document d while it was pending and has not committed yet.
InFlight(d) == \E r \in Workers : req[r].pc = "ready" /\ req[r].document.id = d

\* C1: once a document is processed or rejected, a process, reject or
\* createInvoiceManual call made on it changes nothing: no row, no blob, and
\* the worker holds nothing to commit.  Unless a call that read the document
\* while it was pending is still to commit, the document's row never changes
\* again, no invoice is created from it, and its blob goes only with the
\* explicit deletion of an invoice.
C1_TerminalNoSideEffect ==
    [][\A doc \in pending_documents :
          doc.status \in Terminal =>
             /\ UNCHANGED <<db, blobs, req>> \/ ~DerivationCall(doc.id)
             /\ ~InFlight(doc.id) =>
                   /\ doc \in pending_documents'
                   /\ \A inv \in invoices' \ invoices : inv.pdf_url # doc.pdf_url
                   /\ doc.pdf_url \in blobs =>
                         doc.pdf_url \in blobs' \/ invoices' # invoices
                   /\ ~InFlight(doc.id)']_vars

C1_Witness ==
    /\ resp.op \in {"process", "manual", "reject"}
    /\ resp.user = "u1"
    /\ resp.detail \in Terminal
    /\ \E doc \in pending_documents : doc.status = resp.detail

\* C2: the invoice and the transition pending -> processed come together: a
\* step that takes a document from pending to processed inserts exactly one
\* invoice, made from that document; a step that inserts an invoice inserts one
\* and leaves its document processed with processed_at set; and no state has an
\* invoice whose document is still pending.
C2_Atomic ==
    /\ [](\A inv \in invoices : \A doc \in pending_documents :
             doc.pdf_url = inv.pdf_url => doc.status # "pending")
    /\ [][/\ \A doc \in pending_documents : \A doc2 \in pending_documents' :
                (doc.id = doc2.id /\ doc.status = "pending" /\ doc2.status = "processed")
                   => /\ Cardinality(invoices' \ invoices) = 1
                      /\ \A inv \in invoices' \ invoices : inv.pdf_url = doc.pdf_url
          /\ invoices' \ invoices # {}
                => /\ Cardinality(invoices' \ invoices) = 1
                   /\ \A inv \in invoices' \ invoices :
                         \E doc2 \in pending_documents' :
                            /\ doc2.pdf_url = inv.pdf_url
                            /\ doc2.status = "processed"
                            /\ doc2.processed_at # NoTime]_vars

C2_Witness ==
    \E inv \in invoices : \E doc \in pending_documents :
        doc.pdf_url = inv.pdf_url /\ doc.status = "processed" /\ resp.code = 200

\* C3: when derivation calls on the same pending document interleave, at most
\* one invoice is created from it.
C3_AtMostOneInvoice ==
    \A doc \in pending_documents :
        Cardinality({inv \in invoices : inv.pdf_url = doc.pdf_url}) <= 1

\* C4 as stated: in every state, every invoice's markup_total equals its
\* original_total * (1 + S.markup_percentage / 100) for its supplier's current
\* markup_percentage.
C4_CurrentMarkup ==
    \A inv \in invoices : \A S \in suppliers :
        S.id = inv.supplier_id =>
           inv.markup_total * 100 = inv.original_total * (100 + S.markup_percentage)

\* C4, amended: an invoice is created with markup_total equal to
\* original_total * (1 + p / 100), p being the markup_percentage of the supplier
\* row the derivation call read; the call reads a row of the store; and the
\* amounts of an existing invoice are never written again, whatever happens to
\* its supplier.
C4_MarkupAtCreation ==
    [][/\ \A inv \in invoices' \ invoices :
             \E r \in Workers :
                /\ req[r].pc = "ready"
                /\ req'[r] = Idle
                /\ inv.supplier_id = req[r].supplier.id
                /\ inv.original_total = req[r].original_total
                /\ inv.markup_total * 100 =
                      inv.original_total * (100 + req[r].supplier.markup_percentage)
       /\ \A r \in Workers :
             (req[r].pc = "idle" /\ req'[r].pc = "ready" /\ req'[r].op # "reject")
                => req'[r].supplier \in suppliers
       /\ \A inv \in invoices :
             inv \in invoices' \/ \A inv2 \in invoices' : inv2.id # inv.id]_vars

C4_Witness ==
    /\ resp.op = "update_supplier"
    /\ resp.code = 200
    /\ \E inv \in invoices : \E S \in suppliers :
          /\ S.id = inv.supplier_id
          /\ S.markup_percentage = 0
          /\ inv.markup_total > inv.original_total

\* C5: a process call whose extraction names email e and total t, on a pending
\* document of a workspace with a supplier S of that email, creates exactly one
\* invoice, with supplier_id = S.id, original_total = t and
\* markup_total = t * (1 + S.markup_percentage / 100), and leaves the document
\* processed.
C5_MatchingSupplier ==
    [][\A r \in Workers :
          (req[r].pc = "ready" /\ req[r].op = "process" /\ resp'.code = 200
             /\ req'[r] = Idle)
          => /\ Cardinality(invoices' \ invoices) = 1
             /\ \A inv \in invoices' \ invoices :
                   /\ inv.workspace_id = req[r].document.workspace_id
                   /\ inv.pdf_url = req[r].document.pdf_url
                   /\ inv.original_total = req[r].original_total
                   /\ \E doc \in pending_documents' :
                         /\ doc.id = req[r].document.id
                         /\ doc.status = "processed"
                         /\ doc.processed_at # NoTime
                   /\ \A S \in SuppliersByEmail(req[r].document.workspace_id,
                                                req[r].supplier_email) :
                         /\ inv.supplier_id = S.id
                         /\ inv.markup_total * 100 =
                               req[r].original_total * (100 + S.markup_percentage)]_vars

ProcessFailures ==
    {"ExtractionFailed", "AIExtractionFailed", "ValidationFailed", "SupplierNotFound"}

\* C6: a process call that fails with ExtractionFailed, AIExtractionFailed,
\* ValidationFailed or SupplierNotFound changes nothing: no invoice is created,
\* the document stays pending with processed_at unset, its blob is kept, and
\* the call can be made again.
C6_FailureNoChange ==
    [][(resp' # resp /\ resp'.op = "process" /\ resp'.error \in ProcessFailures)
          => /\ UNCHANGED <<db, blobs, req>>
             /\ \E doc \in pending_documents :
                   /\ doc.workspace_id \in OwnedWorkspaces(resp'.user)
                   /\ doc.status = "pending"
                   /\ doc.processed_at = NoTime]_vars

C6_Witness ==
    /\ resp.op = "process"
    /\ resp.error = "ValidationFailed"
    /\ resp.detail = "missing_total"
    /\ \E doc \in pending_documents : doc.status = "pending" /\ doc.pdf_url \in blobs

\* C7: every invoice belongs to the workspace of its supplier, which exists,
\* and to the workspace of the document it was derived from.
C7_InvoiceWorkspace ==
    \A inv \in invoices :
        /\ \E S \in suppliers : S.id = inv.supplier_id
        /\ \A S \in suppliers :
              S.id = inv.supplier_id => S.workspace_id = inv.workspace_id
        /\ \E doc \in pending_documents : doc.pdf_url = inv.pdf_url
        /\ \A doc \in pending_documents :
              doc.pdf_url = inv.pdf_url => doc.workspace_id = inv.workspace_id

C7_Witness ==
    /\ \E inv \in invoices : inv.workspace_id = 1
    /\ \E S \in suppliers : S.workspace_id = 2
    /\ resp.op = "manual"
    /\ resp.error = "NotFound"
    /\ resp.detail = "Supplier not found in this workspace"

\* C8: a caller who does not own workspace W gets NotFound from every
\* operation on W or on something in W, is returned none of W's rows, and
\* changes nothing.  Here W is workspace 1 and the caller is u2.
C8_Isolation ==
    [][/\ (resp' # resp /\ resp'.user = "u2")
             => /\ resp'.error = "NotFound"
                /\ resp'.data = {}
                /\ UNCHANGED <<db, blobs, req>>
       /\ \A r \in Workers : req'[r].user # "u2"]_vars

\* C9: syncs never create documents twice for a message.  A step that persists
\* documents tagged with message m finds no document and no marker of m and
\* leaves the marker of m; while documents of m are persisted m has a marker;
\* and a sync of W that reaches m when W has documents of m counts it in
\* duplicates_skipped and adds nothing for it.  The statistics a sync returns
\* are the ones it counted.
C9_SyncIdempotent ==
    /\ [](\A doc \in pending_documents :
             doc.gmail_message_id # None =>
                \E e \in processed_emails : e.gmail_message_id = doc.gmail_message_id)
    /\ [][/\ \A doc \in pending_documents' \ pending_documents :
                doc.gmail_message_id # None =>
                   /\ \A old \in pending_documents :
                         old.gmail_message_id # doc.gmail_message_id
                   /\ \A e \in processed_emails :
                         e.gmail_message_id # doc.gmail_message_id
                   /\ \E e \in processed_emails' :
                         e.gmail_message_id = doc.gmail_message_id
          /\ \A r \in Workers :
                (/\ req[r].pc = "syncing"
                 /\ req[r].messages # <<>>
                 /\ req'[r] # req[r]
                 /\ \E doc \in pending_documents :
                       /\ doc.gmail_message_id = Head(req[r].messages)
                       /\ doc.workspace_id = req[r].workspace_id)
                => /\ req'[r].stats.duplicates_skipped =
                         req[r].stats.duplicates_skipped + 1
                   /\ req'[r].stats.documents_created = req[r].stats.documents_created
                   /\ req'[r].added = req[r].added
                   /\ req'[r].markers = req[r].markers
                   /\ req'[r].messages = Tail(req[r].messages)
                   /\ UNCHANGED <<db, blobs>>
          /\ \A r \in Workers :
                (req[r].pc = "syncing" /\ req'[r].pc = "idle" /\ resp'.code = 200)
                => resp'.stats = req[r].stats]_vars

C9_Witness ==
    /\ resp.op = "sync"
    /\ resp.code = 200
    /\ resp.stats.duplicates_skipped >= 1
    /\ resp.stats.documents_created = 0
    /\ \E doc \in pending_documents : doc.gmail_message_id = "m1"

\* C10: deleting a supplier S that has N invoices removes S and exactly those N
\* invoices in one step and reports N; the other suppliers, their invoices, the
\* documents and the blobs are untouched.
C10_DeleteSupplierCascade ==
    [][suppliers' # suppliers /\ suppliers' \subseteq suppliers
          => /\ Cardinality(suppliers \ suppliers') = 1
             /\ \A S \in suppliers \ suppliers' :
                   /\ invoices' = {inv \in invoices : inv.supplier_id # S.id}
                   /\ resp'.op = "delete_supplier"
                   /\ resp'.code = 200
                   /\ resp'.n = Cardinality({inv \in invoices : inv.supplier_id = S.id})
                   /\ S.workspace_id \in OwnedWorkspaces(resp'.user)
             /\ UNCHANGED <<workspaces, pending_documents, processed_emails, blobs>>]_vars

C10_Witness ==
    /\ resp.op = "delete_supplier"
    /\ resp.n >= 1
    /\ invoices # {}
    /\ \E S \in suppliers : S.workspace_id = 1

\* C11: delete_workspace by the owner of a workspace that holds a supplier or an
\* invoice answers InvalidInput and changes no row and no blob; on a workspace
\* that holds neither it succeeds and the workspace row is gone.
C11_DeleteWorkspaceBlocked ==
    [][\A u \in Users, w \in {1, 2} :
        (/\ resp'.op = "delete_workspace"
         /\ WorkspaceOwnedBy(w, u)
         /\ delete_workspace(u, w))
        => IF \/ \E sup \in suppliers : sup.workspace_id = w
              \/ \E inv \in invoices : inv.workspace_id = w
           THEN /\ resp'.code = 400
                /\ resp'.error = "InvalidInput"
                /\ UNCHANGED <<db, blobs>>
           ELSE /\ resp'.code = 204
                /\ ~ \E x \in workspaces' : x.id = w
                /\ \E x \in workspaces : x.id = w]_vars

\* Workspace 1 was deleted while it held a document, and the deletion of
\* workspace 2, which holds a supplier with an invoice, was refused.
C11_Witness ==
    /\ ~ \E x \in workspaces : x.id = 1
    /\ blobs # {}
    /\ pending_documents = {}
    /\ \E sup \in suppliers : sup.workspace_id = 2
    /\ resp.op = "delete_workspace"
    /\ resp.user = "u2"
    /\ resp.error = "InvalidInput"

\* C12: for a workspace of the caller and a range with start <= end, preview
\* and generate both select exactly the invoices of the workspace that carry a
\* date with start <= date <= end; preview returns the size of that set, the sum
\* of its original totals, the sum of its marked-up totals and their
\* difference; generate refuses an empty selection and otherwise totals the
\* same sum of marked-up totals.
C12_ConsolidatedSelection ==
    [][resp'.op \in {"preview", "generate"} =>
       \A u \in {"u1"}, w \in {1, 2}, range \in BillingRanges :
        LET selection ==
                {inv \in invoices :
                    /\ inv.workspace_id = w
                    /\ inv.invoice_date \in Dates
                    /\ toordinal(range[1]) <= toordinal(inv.invoice_date)
                    /\ toordinal(inv.invoice_date) <= toordinal(range[2])}
            shown == {Row("invoice", inv) : inv \in selection}
        IN (/\ WorkspaceOwnedBy(w, u)
            /\ toordinal(range[1]) <= toordinal(range[2]))
           => /\ (resp'.op = "preview" /\ preview_consolidated_invoice(u, w, range[1], range[2]))
                 => /\ resp'.code = 200
                    /\ resp'.data = shown
                    /\ resp'.n = Cardinality(selection)
                    /\ resp'.totals.total_billed = sum(selection, "markup_total")
                    /\ resp'.totals.total_original = sum(selection, "original_total")
                    /\ resp'.totals.total_markup =
                           resp'.totals.total_billed - resp'.totals.total_original
              /\ (resp'.op = "generate" /\ generate_consolidated_invoice(u, w, range[1], range[2]))
                 => IF selection = {}
                    THEN resp'.error = "InvalidInput" /\ resp'.data = {}
                    ELSE /\ resp'.code = 200
                         /\ resp'.data = shown
                         /\ resp'.totals.total_billed = sum(selection, "markup_total")]_vars

\* Workspace 1 holds an invoice dated on the first day and one dated on the
\* last day of a two-day range, and the consolidated invoice generated for it
\* lists both and totals their marked-up amounts.
C12_Witness ==
    /\ resp.op = "generate"
    /\ resp.code = 200
    /\ resp.n = 2
    /\ \E i1 \in invoices, i2 \in invoices :
        /\ i1.workspace_id = 1
        /\ i2.workspace_id = 1
        /\ toordinal(i1.invoice_date) + 1 = toordinal(i2.invoice_date)
        /\ i1.original_total < i1.markup_total
        /\ resp.totals.total_billed = i1.markup_total + i2.markup_total

\* C13: an upload by the owner of the workspace answers InvalidInput, with no
\* blob written and no document row added, when the extension of the file is
\* not one of pdf, png, jpg, jpeg, webp, doc, docx or its size is above 10 MiB;
\* otherwise, the storage having taken the file, exactly one blob and exactly
\* one document row are added, the row in that workspace, pending, with no
\* processed_at.
C13_UploadValidation ==
    [][resp'.op = "upload" =>
       \A u \in Users, w \in {1, 2}, filename \in Filenames, size \in Sizes,
          saved \in BOOLEAN :
        (WorkspaceOwnedBy(w, u) /\ upload_document(u, w, filename, size, saved))
        => IF \/ Suffix(filename) \notin
                    {".pdf", ".png", ".jpg", ".jpeg", ".webp", ".doc", ".docx"}
              \/ size > 10 * 1024 * 1024
           THEN /\ resp'.error = "InvalidInput"
                /\ UNCHANGED <<db, blobs>>
           ELSE saved =>
                /\ resp'.code = 201
                /\ Cardinality(blobs') = Cardinality(blobs) + 1
                /\ blobs \subseteq blobs'
                /\ pending_documents \subseteq pending_documents'
                /\ \E doc \in pending_documents' :
                    /\ pending_documents' \ pending_documents = {doc}
                    /\ doc.workspace_id = w
                    /\ doc.status = "pending"
                    /\ doc.processed_at = NoTime
                    /\ doc.pdf_url \in blobs' \ blobs
                /\ UNCHANGED <<workspaces, suppliers, invoices, processed_emails>>]_vars

\* A file with an allowed extension was stored for workspace 2 by its owner:
\* one blob, one pending document that refers to it.
C13_Witness ==
    /\ resp.op = "upload"
    /\ resp.user = "u2"
    /\ resp.code = 201
    /\ Cardinality(blobs) = 1
    /\ \E doc \in pending_documents :
        /\ pending_documents = {doc}
        /\ doc.id = resp.n
        /\ doc.workspace_id = 2
        /\ doc.filename = "letter.docx"
        /\ doc.status = "pending"
        /\ doc.processed_at = NoTime
        /\ doc.pdf_url \in blobs

\* C14: a process, reject or manual-derivation call by the owner on a document
\* that is not pending answers the client error InvalidState, and the error
\* carries the status of the document.
C14_InvalidState ==
    [][resp'.op \in {"process", "reject", "manual"} =>
       \A u \in Users, doc \in pending_documents :
        (/\ doc.status # "pending"
         /\ DocumentsOwnedBy(doc.id, u) # {}
         /\ \/ \E x \in Extractions : process_document_begin("w1", u, doc.id, x)
            \/ \E fault \in BOOLEAN : reject_document_begin("w1", u, doc.id, fault)
            \/ \E sup \in 1..4, t \in Totals :
                  create_invoice_manual_begin("w1", u, doc.id, sup, t, None))
        => /\ resp'.code = 400
           /\ resp'.error = "InvalidState"
           /\ resp'.detail = doc.status]_vars

\* C15: a manual derivation by the owner of a pending document, with a supplier
\* that is not of the document's workspace, answers InvalidInput, creates no
\* invoice and leaves the document pending.
C15_ForeignSupplier ==
    [][resp'.op = "manual" =>
       \A u \in Users, doc \in pending_documents, sup \in 1..4, t \in Totals :
        (/\ doc.status = "pending"
         /\ DocumentsOwnedBy(doc.id, u) # {}
         /\ ~ \E x \in suppliers : x.id = sup /\ x.workspace_id = doc.workspace_id
         /\ create_invoice_manual_begin("w1", u, doc.id, sup, t, None))
        => /\ resp'.error = "InvalidInput"
           /\ UNCHANGED <<db, blobs>>]_vars

\* C16: a reject by the owner of a pending document goes through whether the
\* deletion of the blob succeeds or fails: the call raises nothing before its
\* commit, a failed deletion leaves the blob where it is, and the commit answers
\* 204 with the document rejected, its processed_at set and no invoice created.
C16_RejectCompletes ==
    [][/\ \A u \in Users, doc \in pending_documents, fault \in BOOLEAN :
            (/\ doc.status = "pending"
             /\ DocumentsOwnedBy(doc.id, u) # {}
             /\ reject_document_begin("w1", u, doc.id, fault))
            => /\ req'["w1"].pc = "ready"
               /\ req'["w1"].op = "reject"
               /\ req'["w1"].document = doc
               /\ resp' = resp
               /\ UNCHANGED db
               /\ fault => blobs' = blobs
       /\ (req["w1"].op = "reject" /\ req'["w1"] # req["w1"])
            => /\ resp'.op = "reject"
               /\ resp'.code = 204
               /\ invoices' = invoices
               /\ \E doc \in pending_documents' :
                    /\ doc.id = req["w1"].document.id
                    /\ doc.status = "rejected"
                    /\ doc.processed_at # NoTime]_vars

\* A document was rejected although its blob could not be deleted: the blob is
\* still in storage, and there is no invoice.
C16_Witness ==
    /\ resp.op = "reject"
    /\ resp.code = 204
    /\ invoices = {}
    /\ \E doc \in pending_documents :
        /\ doc.status = "rejected"
        /\ doc.processed_at # NoTime
        /\ doc.pdf_url \in blobs

\* C17: the subtype of a ValidationFailed answer of process is that of the
\* first failing check, in the order email, total, date: missing_email exactly
\* when the email is absent; missing_total exactly when the email is present
\* and the total is absent; invalid_date exactly when the email and a positive
\* numeric total are present and the date is present but not an ISO date; the
\* generic subtype for every other validation failure.
C17_ValidationSubtype ==
    [][(resp'.op = "process" /\ resp'.error = "ValidationFailed") =>
       \A u \in Users, d \in 1..PipelineDocuments, x \in Extractions :
        process_document_begin("w1", u, d, x)
        => resp'.detail =
              IF x.supplier_email = None THEN "missing_email"
              ELSE IF x.total_amount.t = "null" THEN "missing_total"
              ELSE IF /\ x.total_amount.t = "num"
                      /\ x.total_amount.v > 0
                      /\ x.invoice_date # None
                      /\ ~IsISODate(x.invoice_date)
                   THEN "invalid_date"
              ELSE "validation_failed"]_vars

\* C18: deduplication looks at the markers of the workspace being synced only:
\* a turn of the loop of a sync of W skips message m, counting it in
\* duplicates_skipped, exactly when W has a marker for m.
C18_DedupPerWorkspace ==
    [][\A r \in Workers :
        (/\ req[r].pc = "syncing"
         /\ req[r].messages # <<>>
         /\ req'[r] # req[r]
         /\ req'[r].pc = "syncing")
        => ((req'[r].stats.duplicates_skipped = req[r].stats.duplicates_skipped + 1)
            <=> \E e \in processed_emails :
                    /\ e.gmail_message_id = Head(req[r].messages)
                    /\ e.workspace_id = req[r].workspace_id)]_vars

\* C19: a failure on one message does not end the sync: a turn of the loop
\* leaves the sync running on the remaining messages and keeps the documents
\* and markers the earlier messages added to it.
C19_SyncBestEffort ==
    [][\A r \in Workers :
        (/\ req[r].pc = "syncing"
         /\ req[r].messages # <<>>
         /\ req'[r] # req[r])
        => /\ req'[r].pc = "syncing"
           /\ req'[r].messages = Tail(req[r].messages)
           /\ req[r].added \subseteq req'[r].added
           /\ req[r].markers \subseteq req'[r].markers]_vars

\* C20: a message is never persisted in part.  Every persisted document tagged
\* with m has the marker of m, in its workspace; a step persists the marker of
\* m exactly when it persists documents tagged with m, and then it persists all
\* the documents the sync made for m; a sync that fails persists nothing.
C20_MessageAtomic ==
    /\ [](\A doc \in pending_documents :
             doc.gmail_message_id # None =>
                [gmail_message_id |-> doc.gmail_message_id,
                 workspace_id |-> doc.workspace_id] \in processed_emails)
    /\ [][/\ \A m \in {"m1", "m2"} :
                (\E e \in processed_emails' \ processed_emails : e.gmail_message_id = m)
                <=> (\E doc \in pending_documents' \ pending_documents :
                        doc.gmail_message_id = m)
          /\ \A r \in Workers :
                (req[r].pc = "syncing" /\ req'[r].pc = "idle")
                => IF resp'.code = 200
                   THEN \A m \in req[r].markers :
                          /\ [gmail_message_id |-> m,
                              workspace_id |-> req[r].workspace_id] \in processed_emails'
                          /\ {doc.pdf_url : doc \in
                                {x \in pending_documents' : x.gmail_message_id = m}}
                             = {doc.pdf_url : doc \in
                                {x \in req[r].added : x.gmail_message_id = m}}
                   ELSE UNCHANGED db]_vars

\* Both messages of a search were persisted, each with its marker and its
\* document, by syncs that succeeded.
C20_Witness ==
    /\ resp.op = "sync"
    /\ resp.code = 200
    /\ resp.stats.documents_created >= 1
    /\ \A m \in {"m1", "m2"} :
        /\ \E e \in processed_emails : e.gmail_message_id = m
        /\ \E doc \in pending_documents : doc.gmail_message_id = m

\* C21: a sync records a marker for every message it looked at and did not
\* skip as a duplicate, also for a message without a PDF attachment: a turn of
\* the loop that neither skips nor fails adds the marker of its message to the
\* transaction the sync commits.
C21_MarkerForEveryMessage ==
    [][\A r \in Workers :
        (/\ req[r].pc = "syncing"
         /\ req[r].messages # <<>>
         /\ req'[r] # req[r]
         /\ req'[r].pc = "syncing"
         /\ req'[r].stats.duplicates_skipped = req[r].stats.duplicates_skipped)
        => Head(req[r].messages) \in req'[r].markers]_vars

\* C22: every persisted document, uploaded or made by a sync, has an allowed
\* extension and a file of at most 10 MiB, and is pending when it is created.
C22_IntakeContract ==
    /\ [](\A doc \in pending_documents :
             /\ Suffix(doc.filename) \in
                    {".pdf", ".png", ".jpg", ".jpeg", ".webp", ".doc", ".docx"}
             /\ doc.pdf_url \in blobs => blob_size[doc.pdf_url] <= 10 * 1024 * 1024)
    /\ [][\A doc \in pending_documents' :
             (~ \E old \in pending_documents : old.id = doc.id)
                => doc.status = "pending"]_vars

\* The failures of process the manual path is meant to recover from.
Recoverable == {"AIExtractionFailed", "ValidationFailed", "SupplierNotFound"}

\* C23: a process that fails with AIExtractionFailed, ValidationFailed or
\* SupplierNotFound leaves the document pending with its owner; from there a
\* manual derivation by the owner with a supplier of the document's workspace
\* and a positive total is accepted, and its commit answers success, adds
\* exactly one invoice, for that supplier and that document, and sets the
\* document to processed.
C23_ManualRecovery ==
    [][/\ (resp'.op = "process" /\ resp'.error \in Recoverable) =>
            \A u \in Users, d \in 1..PipelineDocuments, x \in Extractions :
                process_document_begin("w1", u, d, x)
                => \E doc \in DocumentsOwnedBy(d, u) :
                      doc \in pending_documents' /\ doc.status = "pending"
       /\ (resp.op = "process" /\ resp.error \in Recoverable) =>
            /\ \A doc \in pending_documents, sup \in suppliers, t \in Totals :
                  (/\ doc.status = "pending"
                   /\ DocumentsOwnedBy(doc.id, resp.user) # {}
                   /\ sup.workspace_id = doc.workspace_id
                   /\ create_invoice_manual_begin("w1", resp.user, doc.id, sup.id, t, None))
                  => /\ req'["w1"].pc = "ready"
                     /\ req'["w1"].op = "manual"
                     /\ req'["w1"].document = doc
                     /\ req'["w1"].supplier = sup
                     /\ resp' = resp
            /\ (req["w1"].op = "manual" /\ req'["w1"] # req["w1"])
                  => /\ resp'.op = "manual"
                     /\ resp'.code = 200
                     /\ \E inv \in invoices' :
                          /\ invoices' \ invoices = {inv}
                          /\ inv.supplier_id = req["w1"].supplier.id
                          /\ inv.workspace_id = req["w1"].document.workspace_id
                          /\ inv.pdf_url = req["w1"].document.pdf_url
                          /\ inv.original_total > 0
                     /\ invoices \subseteq invoices'
                     /\ \E doc \in pending_documents' :
                          /\ doc.id = req["w1"].document.id
                          /\ doc.status = "processed"]_vars

\* The automatic derivation of a document found no supplier, the document is
\* still pending, and the owner's manual derivation of it is under way.
C23_Witness ==
    /\ resp.op = "process"
    /\ resp.error = "SupplierNotFound"
    /\ req["w1"].op = "manual"
    /\ req["w1"].pc = "ready"
    /\ req["w1"].user = resp.user
    /\ req["w1"].document \in pending_documents
    /\ req["w1"].document.status = "pending"
    /\ invoices = {}

\* C24: delete_invoice by the owner answers 204 and removes exactly that
\* invoice row; it deletes the blob of the invoice, and when that deletion
\* fails the row is removed all the same and the blob stays.  No other invoice,
\* no supplier and no document changes: the source document stays processed.
C24_DeleteInvoiceFrame ==
    [][resp'.op = "delete_invoice" =>
       \A u \in Users, inv \in invoices, fault \in BOOLEAN :
        (InvoicesOwnedBy(inv.id, u) # {} /\ delete_invoice(u, inv.id, fault))
        => /\ resp'.code = 204
           /\ invoices' = invoices \ {inv}
           /\ blobs' = IF fault THEN blobs ELSE blobs \ {inv.pdf_url}
           /\ UNCHANGED <<workspaces, suppliers, pending_documents, processed_emails>>
           /\ \A doc \in pending_documents' :
                 doc.pdf_url = inv.pdf_url => doc.status = "processed"]_vars

\* An invoice was deleted although its blob could not be: no invoice is left,
\* the blob is still there, and the source document is still processed.
C24_Witness ==
    /\ resp.op = "delete_invoice"
    /\ resp.code = 204
    /\ invoices = {}
    /\ \E doc \in pending_documents :
        /\ doc.status = "processed"
        /\ doc.pdf_url \in blobs

\* C25: of a derivation and a reject of the same pending document only one
\* takes effect: no invoice exists for a document that is rejected or whose
\* blob is gone from storage.
C25_DeriveOrReject ==
    \A inv \in invoices, doc \in pending_documents :
        inv.pdf_url = doc.pdf_url
        => /\ doc.status # "rejected"
           /\ doc.pdf_url \in blobs

\* C26: when two syncs both found message m without a marker, only one of them
\* persists documents of m.  The commit of a sync that holds a marker already
\* committed by another sync fails and persists none of its documents and
\* markers; a commit that succeeds persists documents of a message that had
\* none.
C26_SyncRace ==
    [][\A r \in Workers :
        (/\ req[r].pc = "syncing"
         /\ req[r].messages = <<>>
         /\ req'[r] # req[r])
        => IF \E e \in processed_emails : e.gmail_message_id \in req[r].markers
           THEN /\ resp'.op = "sync"
                /\ resp'.code = 500
                /\ req'[r] = Idle
                /\ UNCHANGED db
           ELSE /\ resp'.code = 200
                /\ \A m \in req[r].markers :
                      /\ ~ \E doc \in pending_documents : doc.gmail_message_id = m
                      /\ \E doc \in pending_documents' : doc.gmail_message_id = m]_vars

\* Two syncs saved an attachment of the same message; one committed its
\* document and marker, the commit of the other failed and left nothing but
\* its blob.
C26_Witness ==
    /\ resp.op = "sync"
    /\ resp.code = 500
    /\ \A r \in Workers : req[r] = Idle
    /\ Cardinality(blobs) = 2
    /\ processed_emails = {[gmail_message_id |-> "m1", workspace_id |-> 1]}
    /\ Cardinality(pending_documents) = 1
    /\ \A doc \in pending_documents : doc.gmail_message_id = "m1"

\* C27: the automatic derivation is a function of the persisted state, the
\* document and the extraction output: the supplier a process call picks is the
\* only supplier it could pick, so the invoice it creates is determined.
C27_ProcessDeterministic ==
    [][\A u \in Users, d \in 1..PipelineDocuments, x \in Extractions :
        (req'["w1"].op = "process" /\ process_document_begin("w1", u, d, x))
        => \A doc \in DocumentsOwnedBy(d, u) :
              \A sup \in SuppliersByEmail(doc.workspace_id, x.supplier_email) :
                 /\ req'["w1"].supplier.id = sup.id
                 /\ req'["w1"].markup_total =
                        markup_total(x.total_amount.v, sup.markup_percentage)]_vars

\* C28: a workspace without suppliers has no invoices, so delete_workspace is
\* never refused because of invoices.
C28_NoSupplierNoInvoice ==
    /\ [](\A w \in workspaces :
             (~ \E sup \in suppliers : sup.workspace_id = w.id)
                => ~ \E inv \in invoices : inv.workspace_id = w.id)
    /\ [][resp'.op = "delete_workspace" =>
             resp'.detail # "Cannot delete workspace with invoice(s)"]_vars

\* The last supplier of workspace 1 was deleted together with its invoice, and
\* the workspace, now empty, was deleted.
C28_Witness ==
    /\ resp.op = "delete_workspace"
    /\ resp.code = 204
    /\ ~ \E x \in workspaces : x.id = 1
    /\ seq.invoice > 1
    /\ invoices = {}

\* C29: every supplier, invoice, document and marker refers to an existing
\* workspace and every invoice to an existing supplier; a delete_workspace by
\* the owner of a workspace without suppliers and invoices succeeds, whatever
\* documents and markers the workspace holds, and leaves no row of it.
C29_ReferentialIntegrity ==
    /\ [](/\ \A row \in suppliers \cup invoices \cup pending_documents \cup processed_emails :
                \E w \in workspaces : w.id = row.workspace_id
          /\ \A inv \in invoices : \E sup \in suppliers : sup.id = inv.supplier_id)
    /\ [][resp'.op = "delete_workspace" =>
          \A u \in Users, w \in {1, 2} :
            (/\ WorkspaceOwnedBy(w, u)
             /\ ~ \E sup \in suppliers : sup.workspace_id = w
             /\ ~ \E inv \in invoices : inv.workspace_id = w
             /\ delete_workspace(u, w))
            => /\ resp'.code = 204
               /\ pending_documents' = {doc \in pending_documents : doc.workspace_id # w}
               /\ processed_emails' = {e \in processed_emails : e.workspace_id # w}
               /\ ~ \E x \in workspaces' : x.id = w]_vars

\* Workspace 1, which held nothing but a document a sync had made and the
\* marker of its message, was deleted; workspace 2 never held a document.
C29_Witness ==
    /\ resp.op = "delete_workspace"
    /\ resp.code = 204
    /\ workspaces = {[id |-> 2, user_id |-> "u2"]}
    /\ seq.document = 2
    /\ seq.invoice = 1
    /\ blobs = {1}
    /\ pending_documents = {}
    /\ processed_emails = {}

IsWord(doc) == Suffix(doc.filename) \in {".doc", ".docx"}

\* C30: a document with a doc or docx extension is accepted by upload, never
\* derived automatically, and changes status only through the manual entry or
\* the rejection.  An upload of a Word file of allowed size by the owner of the
\* workspace answers 201 and stores a pending document; process on a pending
\* Word document always answers ExtractionFailed and changes neither the
\* database nor the files; a pending Word document keeps its row, and its
\* status changes only in the commit of a manual or reject call on it; an
\* invoice on the file of a Word document is made only by a manual call.
C30_WordNeverDerived ==
    /\ [][resp'.op = "upload" =>
          \A f \in WordFilenames :
            upload_document("u1", 1, f, MAX_UPLOAD_SIZE, TRUE)
            => /\ resp'.code = 201
               /\ \E doc \in pending_documents' \ pending_documents :
                     /\ doc.filename = f
                     /\ doc.status = "pending"
                     /\ doc.pdf_url \in blobs']_vars
    /\ [][resp'.op = "process" =>
          \A u \in Users, d \in 1..WordDocuments, x \in WordExtractions :
            (/\ \E doc \in DocumentsOwnedBy(d, u) : IsWord(doc) /\ doc.status = "pending"
             /\ process_document_begin("w1", u, d, x))
            => /\ resp'.error = "ExtractionFailed"
               /\ resp'.code = 500
               /\ UNCHANGED <<db, blobs, blob_size, req>>]_vars
    /\ [][\A doc \in pending_documents :
            (IsWord(doc) /\ doc.status = "pending")
            => \E after \in pending_documents' :
                 /\ after.id = doc.id
                 /\ after.filename = doc.filename
                 /\ after.status # "pending"
                    => /\ req["w1"].op \in {"manual", "reject"}
                       /\ req["w1"].document.id = doc.id
                       /\ resp'.op = req["w1"].op
                       /\ after.status = IF req["w1"].op = "manual"
                                         THEN "processed" ELSE "rejected"]_vars
    /\ [][\A inv \in invoices' \ invoices :
            (\E doc \in pending_documents : IsWord(doc) /\ doc.pdf_url = inv.pdf_url)
            => resp'.op = "manual"]_vars

\* A process call on the pending memo.doc, whose file is stored, has failed
\* with ExtractionFailed; the other document, letter.docx, was entered manually.
C30_Witness ==
    /\ resp.op = "process"
    /\ resp.error = "ExtractionFailed"
    /\ \E doc \in pending_documents :
          /\ doc.filename = "memo.doc"
          /\ doc.status = "pending"
          /\ doc.pdf_url \in blobs
    /\ \E doc \in pending_documents :
          /\ doc.filename = "letter.docx"
          /\ doc.status = "processed"

=============================================================================
